---- MODULE Spec2Model ----
(***************************************************************************)
(* The lesson-PDF question-answering pipeline of MegaMind-LMS-backend:     *)
(* background indexing of a lesson's PDF (apps/courses/vector_utils.py,    *)
(* started by the post_save signal of apps/courses/signals.py) and the     *)
(* question-answering view LessonPDFQnA (apps/courses/api/views.py).       *)
(*                                                                         *)
(* Files are modelled at the granularity of open-for-writing (the file is  *)
(* created or truncated) and end-of-write (the content is complete): the   *)
(* code writes lesson_<id>.index and lesson_<id>_chunks.pkl in place.      *)
(***************************************************************************)
EXTENDS Integers, Sequences, FiniteSets, TLC

\* ------------------------------------------------------------------ bounds

\* Number of background indexing threads ever started.
MaxRuns == 2

\* ------------------------------------------------------- program constants

\* search_index(lesson_id, question, k=3)
DefaultK == 3

\* ------------------------------------------------------------------ inputs

Lessons == {1, 2}

\* PDF files a lesson can carry.  "bad" cannot be opened or parsed, "blank"
\* extracts to whitespace only, "A" holds two chunks of text, "B" four.
Docs == {"bad", "blank", "A", "B"}

\* A text is a sequence of tokens: " " is whitespace, any other token stands
\* for one chunk-sized block of characters.
DocText(d) ==
    CASE d = "blank" -> <<" ", " ">>
      [] d = "A"     -> <<"a1", " ", "a2">>
      [] d = "B"     -> <<"b1", "b2", "b3", "b4">>
      [] OTHER       -> <<>>

\* request.data.get("question"): absent (None), empty, whitespace, or a question.
NoQuestion == "None"
Questions == {NoQuestion, "", " ", "q1"}

\* The lesson table: a row that was never created, a deleted row, a lesson
\* without pdf_file, or a lesson whose pdf_file is one of Docs.
NoLesson == "NoLesson"
Deleted == "Deleted"
NoPdf == "NoPdf"

\* A file that is not there.
NoFile == [exists |-> FALSE, whole |-> FALSE, run |-> 0, data |-> <<>>]

\* What search_index returns when the index file is missing.
Sentinel == <<"This lesson's PDF has not been indexed yet.">>

VARIABLES
    lessonPdf,   \* LessonModel rows: lesson id -> NoLesson | Deleted | NoPdf | doc
    indexFile,   \* vector_indexes/lesson_<id>.index
    chunkFile,   \* vector_indexes/lesson_<id>_chunks.pkl
    runs,        \* the indexing threads: run id -> its position and locals
    req,         \* the question-answering request in flight
    overlap      \* history: the lessons for which two threads ever ran at once

vars == <<lessonPdf, indexFile, chunkFile, runs, req, overlap>>

Runs == 1..MaxRuns

\* ---------------------------------------------------------- pure functions

\* str.strip(): drop leading and trailing whitespace.
RECURSIVE LStrip(_)
LStrip(text) ==
    IF text # <<>> /\ Head(text) = " " THEN LStrip(Tail(text)) ELSE text

RECURSIVE RStrip(_)
RStrip(text) ==
    IF text # <<>> /\ text[Len(text)] = " "
    THEN RStrip(SubSeq(text, 1, Len(text) - 1))
    ELSE text

Strip(text) == RStrip(LStrip(text))

\* chunk_text: the splitter cuts the text into chunk-sized pieces in document
\* order and strips the whitespace around each piece; a piece that is empty
\* after stripping is dropped.
IsBlock(tok) == tok # " "
chunk_text(text) == SelectSeq(text, IsBlock)

\* embedding_model.encode: a fixed, deterministic map from a text to a vector.
Encode(t) ==
    CASE t = "a1" -> <<0, 0>>
      [] t = "a2" -> <<3, 0>>
      [] t = "b1" -> <<0, 1>>
      [] t = "b2" -> <<0, -1>>
      [] t = "b3" -> <<2, 2>>
      [] t = "b4" -> <<5, 5>>
      [] t = "q1" -> <<0, 0>>
      [] OTHER    -> <<1, 1>>

EncodeAll(texts) == [i \in 1..Len(texts) |-> Encode(texts[i])]

\* IndexFlatL2: squared Euclidean distance.
Dist2(u, v) == (u[1] - v[1]) * (u[1] - v[1]) + (u[2] - v[2]) * (u[2] - v[2])

\* IndexFlatIP instead of IndexFlatL2: the larger inner product is the
\* better match.
Dot(u, v) == u[1] * v[1] + u[2] * v[2]
CloserByInnerProduct(vecs, q, i, j) ==
    \/ Dot(vecs[i], q) > Dot(vecs[j], q)
    \/ Dot(vecs[i], q) = Dot(vecs[j], q) /\ i < j

\* Equal distances resolved towards the vector stored last.
CloserTiesToLast(vecs, q, i, j) ==
    \/ Dist2(vecs[i], q) < Dist2(vecs[j], q)
    \/ Dist2(vecs[i], q) = Dist2(vecs[j], q) /\ i > j

\* Stored vector i is a better match for q than stored vector j.  The flat
\* index scans the stored vectors in order and keeps the k best in a heap
\* ordered by (distance, label): of two equal distances the lower label wins.
Closer(vecs, q, i, j) ==
    \/ Dist2(vecs[i], q) < Dist2(vecs[j], q)
    \/ Dist2(vecs[i], q) = Dist2(vecs[j], q) /\ i < j

\* index.search(q, k): the labels (0-based positions) of the k nearest stored
\* vectors, nearest first; faiss fills the result with -1 when the index
\* holds fewer than k vectors.
IndexSearch(vecs, q, k) ==
    [p \in 1..k |->
        IF p <= Len(vecs)
        THEN (CHOOSE i \in 1..Len(vecs) :
                Cardinality({j \in 1..Len(vecs) : Closer(vecs, q, j, i)}) = p - 1) - 1
        ELSE -1]

\* Python list indexing text_chunks[i]: a negative i counts from the end,
\* and an i outside -len..len-1 raises IndexError.
PyInRange(list, i) == -Len(list) <= i /\ i < Len(list)
PyGet(list, i) == IF i >= 0 THEN list[i + 1] ELSE list[Len(list) + i + 1]

\* A check of the directory instead of the file: os.path.exists(INDEX_DIR).
IndexDirExists(l) == TRUE

\* os.path.exists(index_path)
IndexExists(l) == indexFile[l].exists

\* ------------------------------------------------------------ initial state

\* A thread: its position, its lesson_id, the PDF it found on the lesson and
\* how it ended.
IdleRun == [pc |-> "idle", lesson |-> 0, doc |-> "", outcome |-> ""]

NoResponse == [status |-> 0, kind |-> ""]

\* A request: its position, its inputs, the locals index and text_chunks of
\* search_index, whether the question was encoded, how search_index ended
\* (search), the context it returned, the number of calls of
\* query_generative_model (gen) and the Response of the view.
IdleReq == [pc |-> "idle", lesson |-> 0, question |-> NoQuestion,
            idx |-> NoFile, chunks |-> NoFile, encoded |-> FALSE,
            search |-> "none", ctx |-> <<>>, gen |-> 0, resp |-> NoResponse]

\* Lesson 1 is about to be created.  Lesson 2 was created, indexed from PDF
\* "A" and deleted before: its row is gone and its two files are still in
\* vector_indexes.  No thread is running and no request is in flight.
StaleIndex == [exists |-> TRUE, whole |-> TRUE, run |-> 0,
               data |-> EncodeAll(chunk_text(DocText("A")))]
StaleChunks == [exists |-> TRUE, whole |-> TRUE, run |-> 0,
                data |-> chunk_text(DocText("A"))]

Init ==
    /\ lessonPdf = [l \in Lessons |-> IF l = 1 THEN NoLesson ELSE Deleted]
    /\ indexFile = [l \in Lessons |-> IF l = 1 THEN NoFile ELSE StaleIndex]
    /\ chunkFile = [l \in Lessons |-> IF l = 1 THEN NoFile ELSE StaleChunks]
    /\ runs = [r \in Runs |-> IdleRun]
    /\ req = IdleReq
    /\ overlap = {}

\* ------------------------------------------------- saving a lesson (signal)

IdleRuns == {r \in Runs : runs[r].pc = "idle"}

\* The threads that are indexing lesson l right now.
Active(l) == {r \in Runs : runs[r].lesson = l /\ runs[r].pc \notin {"idle", "done"}}

\* lesson_post_save without its "if instance.pdf_file" test: every save
\* starts a thread.
lesson_post_save_always(l, pdf) ==
    /\ IdleRuns # {}
    /\ LET r == CHOOSE x \in IdleRuns : \A y \in IdleRuns : x <= y
       IN runs' = [runs EXCEPT ![r] = [pc |-> "lookup", lesson |-> l,
                                       doc |-> "", outcome |-> ""]]
    /\ overlap' = IF Active(l) # {} THEN overlap \cup {l} ELSE overlap

\* lesson_post_save with thread.join() after thread.start(): the handler, and
\* with it the save, goes through only when no thread of the lesson is at work.
lesson_post_save_joining(l, pdf) ==
    IF pdf # NoPdf
    THEN /\ IdleRuns # {}
         /\ Active(l) = {}
         /\ LET r == CHOOSE x \in IdleRuns : \A y \in IdleRuns : x <= y
            IN runs' = [runs EXCEPT ![r] = [pc |-> "lookup", lesson |-> l,
                                            doc |-> "", outcome |-> ""]]
         /\ overlap' = overlap
    ELSE UNCHANGED <<runs, overlap>>

\* lesson_post_save: a lesson whose pdf_file is set starts one thread running
\* create_and_save_index(instance.id); the handler then returns.
lesson_post_save(l, pdf) ==
    IF pdf # NoPdf
    THEN /\ IdleRuns # {}
         /\ LET r == CHOOSE x \in IdleRuns : \A y \in IdleRuns : x <= y
            IN runs' = [runs EXCEPT ![r] = [pc |-> "lookup", lesson |-> l,
                                            doc |-> "", outcome |-> ""]]
         /\ overlap' = IF Active(l) # {} THEN overlap \cup {l} ELSE overlap
    ELSE UNCHANGED <<runs, overlap>>

\* LessonList.post: serializer.save() inserts the row under the next id and
\* fires post_save.
CreateLesson(l, pdf) ==
    /\ lessonPdf[l] = NoLesson
    /\ \A m \in Lessons : m < l => lessonPdf[m] # NoLesson
    /\ lessonPdf' = [lessonPdf EXCEPT ![l] = pdf]
    /\ lesson_post_save(l, pdf)
    /\ UNCHANGED <<indexFile, chunkFile, req>>

\* LessonDescription.put: serializer.save() updates the row and fires post_save.
UpdateLesson(l, pdf) ==
    /\ lessonPdf[l] \notin {NoLesson, Deleted}
    /\ lessonPdf' = [lessonPdf EXCEPT ![l] = pdf]
    /\ lesson_post_save(l, pdf)
    /\ UNCHANGED <<indexFile, chunkFile, req>>

\* LessonDescription.delete with a clean-up of the lesson's two files.
DeleteLessonRemovingFiles(l) ==
    /\ lessonPdf[l] \notin {NoLesson, Deleted}
    /\ lessonPdf' = [lessonPdf EXCEPT ![l] = Deleted]
    /\ indexFile' = [indexFile EXCEPT ![l] = NoFile]
    /\ chunkFile' = [chunkFile EXCEPT ![l] = NoFile]
    /\ UNCHANGED <<runs, req, overlap>>

\* LessonDescription.delete: the row goes, the files under vector_indexes stay.
DeleteLesson(l) ==
    /\ lessonPdf[l] \notin {NoLesson, Deleted}
    /\ lessonPdf' = [lessonPdf EXCEPT ![l] = Deleted]
    /\ UNCHANGED <<indexFile, chunkFile, runs, req, overlap>>

\* ------------------------------------------------ create_and_save_index

\* create_and_save_index without its "except Exception" clause.
CaughtDoesNotExistOnly(kind) == kind = "DoesNotExist"

\* The except clauses of create_and_save_index: LessonModel.DoesNotExist and
\* Exception.  Every failure raised inside the try block is one of the two.
Caught(kind) == kind \in {"DoesNotExist", "Exception"}

\* The run ends: by a return, or by an exception that a handler logs, or by
\* an exception that leaves the function.
Return(r, outcome) ==
    [runs EXCEPT ![r].pc = "done", ![r].doc = "", ![r].outcome = outcome]

Raise(r, kind) ==
    IF Caught(kind)
    THEN Return(r, IF kind = "DoesNotExist" THEN "not_found" ELSE "error")
    ELSE Return(r, "escaped")

\* Embeddings added to the index in the reverse of the chunk order.
EmbeddingsReversed(r) ==
    LET texts == chunk_text(DocText(runs[r].doc))
    IN [i \in 1..Len(texts) |-> Encode(texts[Len(texts) + 1 - i])]

\* text_chunks and embeddings of a run, both derived from the PDF it read.
TextChunks(r) == chunk_text(DocText(runs[r].doc))
Embeddings(r) == EncodeAll(TextChunks(r))

\* create_and_save_index waiting for its lesson: while the row is not there
\* the thread stays at the lookup.
LookupWaiting(r) ==
    /\ runs[r].pc = "lookup"
    /\ lessonPdf[runs[r].lesson] \notin {NoLesson, Deleted}
    /\ \E fail \in BOOLEAN :
         LET row == lessonPdf[runs[r].lesson] IN
         runs' = IF fail THEN Raise(r, "Exception")
                 ELSE IF row = NoPdf THEN Return(r, "no_pdf")
                 ELSE [runs EXCEPT ![r].pc = "process", ![r].doc = row]
    /\ UNCHANGED <<lessonPdf, indexFile, chunkFile, req, overlap>>

\* lesson = LessonModel.objects.get(id=lesson_id); if not lesson.pdf_file: return
Lookup(r) ==
    /\ runs[r].pc = "lookup"
    /\ \E fail \in BOOLEAN :
         LET row == lessonPdf[runs[r].lesson] IN
         runs' = IF fail THEN Raise(r, "Exception")
                 ELSE IF row \in {NoLesson, Deleted} THEN Raise(r, "DoesNotExist")
                 ELSE IF row = NoPdf THEN Return(r, "no_pdf")
                 ELSE [runs EXCEPT ![r].pc = "process", ![r].doc = row]
    /\ UNCHANGED <<lessonPdf, indexFile, chunkFile, req, overlap>>

\* ProcessPdf with a clean-up on the empty-text path: the index file of the
\* lesson is removed before the return.
ProcessPdfRemovingIndex(r) ==
    /\ runs[r].pc = "process"
    /\ \E fail \in BOOLEAN :
         IF fail \/ runs[r].doc = "bad"
           THEN runs' = Raise(r, "Exception") /\ UNCHANGED indexFile
         ELSE IF Strip(DocText(runs[r].doc)) = <<>>
           THEN /\ runs' = Return(r, "blank")
                /\ indexFile' = [indexFile EXCEPT ![runs[r].lesson] = NoFile]
         ELSE runs' = [runs EXCEPT ![r].pc = "open_index"] /\ UNCHANGED indexFile
    /\ UNCHANGED <<lessonPdf, chunkFile, req, overlap>>

\* open(lesson.pdf_file.path), PdfReader, extract_text; a text that is empty
\* after strip() returns.  Then chunk_text, embedding_model.encode,
\* IndexFlatL2(d) and index.add, all on the thread's own data.
ProcessPdf(r) ==
    /\ runs[r].pc = "process"
    /\ \E fail \in BOOLEAN :
         runs' = IF fail \/ runs[r].doc = "bad" THEN Raise(r, "Exception")
                 ELSE IF Strip(DocText(runs[r].doc)) = <<>> THEN Return(r, "blank")
                 ELSE IF Embeddings(r) = <<>> THEN Raise(r, "Exception")
                 ELSE [runs EXCEPT ![r].pc = "open_index"]
    /\ UNCHANGED <<lessonPdf, indexFile, chunkFile, req, overlap>>

\* Opening a file for writing creates it or truncates it in place.
Truncated(r) == [exists |-> TRUE, whole |-> FALSE, run |-> r, data |-> <<>>]
Written(r, data) == [exists |-> TRUE, whole |-> TRUE, run |-> r, data |-> data]

\* The end of a write by run r.  When no other thread opened the file since r
\* did, the file holds r's data.  When another thread truncated or wrote it in
\* between, the bytes of the two writers are interleaved: the file may hold
\* r's data or unreadable bytes.
AfterWrite(file, r, data) ==
    IF file = Truncated(r) THEN {Written(r, data)}
    ELSE {Written(r, data), Truncated(r)}

\* faiss.write_index(index, index_path): the file is opened ...
OpenIndex(r) ==
    /\ runs[r].pc = "open_index"
    /\ \E fail \in BOOLEAN :
         IF fail
         THEN runs' = Raise(r, "Exception") /\ UNCHANGED indexFile
         ELSE /\ runs' = [runs EXCEPT ![r].pc = "write_index"]
              /\ indexFile' = [indexFile EXCEPT ![runs[r].lesson] = Truncated(r)]
    /\ UNCHANGED <<lessonPdf, chunkFile, req, overlap>>

\* ... and the vectors are written to it.
WriteIndex(r) ==
    /\ runs[r].pc = "write_index"
    /\ \E fail \in BOOLEAN :
         IF fail
         THEN runs' = Raise(r, "Exception") /\ UNCHANGED indexFile
         ELSE /\ runs' = [runs EXCEPT ![r].pc = "open_chunks"]
              /\ \E f \in AfterWrite(indexFile[runs[r].lesson], r, Embeddings(r)) :
                   indexFile' = [indexFile EXCEPT ![runs[r].lesson] = f]
    /\ UNCHANGED <<lessonPdf, chunkFile, req, overlap>>

\* with open(chunks_path, "wb") as f: ...
OpenChunks(r) ==
    /\ runs[r].pc = "open_chunks"
    /\ \E fail \in BOOLEAN :
         IF fail
         THEN runs' = Raise(r, "Exception") /\ UNCHANGED chunkFile
         ELSE /\ runs' = [runs EXCEPT ![r].pc = "write_chunks"]
              /\ chunkFile' = [chunkFile EXCEPT ![runs[r].lesson] = Truncated(r)]
    /\ UNCHANGED <<lessonPdf, indexFile, req, overlap>>

\* ... pickle.dump(text_chunks, f); the function then prints and returns.
WriteChunks(r) ==
    /\ runs[r].pc = "write_chunks"
    /\ \E fail \in BOOLEAN :
         IF fail
         THEN runs' = Raise(r, "Exception") /\ UNCHANGED chunkFile
         ELSE /\ runs' = Return(r, "ok")
              /\ \E f \in AfterWrite(chunkFile[runs[r].lesson], r, TextChunks(r)) :
                   chunkFile' = [chunkFile EXCEPT ![runs[r].lesson] = f]
    /\ UNCHANGED <<lessonPdf, indexFile, req, overlap>>

\* ------------------------------------------- LessonPDFQnA.post, search_index

Response(status, kind) == [status |-> status, kind |-> kind]

\* The end of the request: the view returns a Response.  The locals of
\* search_index end with its return, those of post (the lesson, the question,
\* the context) with the Response; search and encoded stay as the history of
\* the request.
Respond(status, kind) ==
    [req EXCEPT !.pc = "done", !.lesson = 0, !.question = NoQuestion,
                !.ctx = <<>>, !.resp = Response(status, kind)]

\* post with the two tests in the other order: the question first, then the
\* pdf_file.
PostRequestQuestionFirst(l, q) ==
    /\ req.pc = "idle"
    /\ req' = IF lessonPdf[l] \in {NoLesson, Deleted}
                THEN Respond(404, "not_found")
              ELSE IF q = NoQuestion \/ q = ""
                THEN Respond(400, "no_question")
              ELSE IF lessonPdf[l] = NoPdf
                THEN Respond(400, "no_pdf")
              ELSE [req EXCEPT !.pc = "exists", !.lesson = l, !.question = q]
    /\ UNCHANGED <<lessonPdf, indexFile, chunkFile, runs, overlap>>

\* search_index raised: the view's except clause turns it into a 500.
SearchRaised ==
    [Respond(500, "search_failed") EXCEPT !.search = "raised",
                                          !.idx = NoFile, !.chunks = NoFile]

\* Python truth value of request.data.get("question")
Falsy(q) == q = NoQuestion \/ q = ""

\* post: get_object_or_404, the pdf_file check, the question check, and the
\* call of search_index(lesson_id, question).
PostRequest(l, q) ==
    /\ req.pc = "idle"
    /\ req' = IF lessonPdf[l] \in {NoLesson, Deleted}
                THEN Respond(404, "not_found")
              ELSE IF lessonPdf[l] = NoPdf
                THEN Respond(400, "no_pdf")
              ELSE IF Falsy(q)
                THEN Respond(400, "no_question")
              ELSE [req EXCEPT !.pc = "exists", !.lesson = l, !.question = q]
    /\ UNCHANGED <<lessonPdf, indexFile, chunkFile, runs, overlap>>

\* if not os.path.exists(index_path): return "This lesson's PDF has not ..."
SearchExists ==
    /\ req.pc = "exists"
    /\ req' = IF IndexExists(req.lesson)
              THEN [req EXCEPT !.pc = "read_index"]
              ELSE [req EXCEPT !.pc = "generate", !.search = "sentinel",
                               !.ctx = Sentinel]
    /\ UNCHANGED <<lessonPdf, indexFile, chunkFile, runs, overlap>>

\* A file can be loaded when it is there and completely written.
Readable(file) == file.exists /\ file.whole

\* search_index that removes an index file it cannot load.
ReadIndexRemovingCorrupt ==
    /\ req.pc = "read_index"
    /\ IF Readable(indexFile[req.lesson])
       THEN /\ req' = [req EXCEPT !.pc = "read_chunks", !.idx = indexFile[req.lesson]]
            /\ UNCHANGED indexFile
       ELSE /\ req' = SearchRaised
            /\ indexFile' = [indexFile EXCEPT ![req.lesson] = NoFile]
    /\ UNCHANGED <<lessonPdf, chunkFile, runs, overlap>>

\* search_index with a fixed index_path: lesson_1.index whatever lesson_id is.
ReadIndexOfFirstLesson ==
    /\ req.pc = "read_index"
    /\ req' = IF Readable(indexFile[1])
              THEN [req EXCEPT !.pc = "read_chunks", !.idx = indexFile[1]]
              ELSE SearchRaised
    /\ UNCHANGED <<lessonPdf, indexFile, chunkFile, runs, overlap>>

\* index = faiss.read_index(index_path)
ReadIndex ==
    /\ req.pc = "read_index"
    /\ req' = IF Readable(indexFile[req.lesson])
              THEN [req EXCEPT !.pc = "read_chunks", !.idx = indexFile[req.lesson]]
              ELSE SearchRaised
    /\ UNCHANGED <<lessonPdf, indexFile, chunkFile, runs, overlap>>

\* with open(chunks_path, "rb") as f: text_chunks = pickle.load(f)
ReadChunks ==
    /\ req.pc = "read_chunks"
    /\ req' = IF Readable(chunkFile[req.lesson])
              THEN [req EXCEPT !.pc = "search", !.chunks = chunkFile[req.lesson]]
              ELSE SearchRaised
    /\ UNCHANGED <<lessonPdf, indexFile, chunkFile, runs, overlap>>

\* distances, indices = index.search(question_embedding, k)
Labels(idx, q, k) == IndexSearch(idx.data, Encode(q), k)

\* relevant_chunks = [text_chunks[i] for i in indices[0]]; the context is the
\* chunk texts in that order (joined with the separator).
RelevantChunks(chunks, labels) ==
    [p \in 1..Len(labels) |-> PyGet(chunks.data, labels[p])]

\* The encode, search, list comprehension and join of search_index.
Search ==
    /\ req.pc = "search"
    /\ LET labels == Labels(req.idx, req.question, DefaultK) IN
       req' = IF \A p \in 1..Len(labels) : PyInRange(req.chunks.data, labels[p])
              THEN [req EXCEPT !.pc = "generate", !.search = "context",
                               !.idx = NoFile, !.chunks = NoFile,
                               !.encoded = TRUE,
                               !.ctx = RelevantChunks(req.chunks, labels)]
              ELSE [SearchRaised EXCEPT !.encoded = TRUE]
    /\ UNCHANGED <<lessonPdf, indexFile, chunkFile, runs, overlap>>

\* post with one automatic retry of a failed query_generative_model call.
GenerateRetrying ==
    /\ req.pc = "generate"
    /\ \E fail \in BOOLEAN :
         req' = IF fail /\ req.gen = 0 THEN [req EXCEPT !.gen = 1]
                ELSE [(IF fail THEN Respond(500, "generation_failed")
                               ELSE Respond(200, "answer"))
                       EXCEPT !.gen = req.gen + 1]
    /\ UNCHANGED <<lessonPdf, indexFile, chunkFile, runs, overlap>>

\* The prompt is built around whatever search_index returned, and
\* query_generative_model(prompt) is called once: it answers or raises.
Generate ==
    /\ req.pc = "generate"
    /\ \E fail \in BOOLEAN :
         req' = [(IF fail THEN Respond(500, "generation_failed")
                          ELSE Respond(200, "answer"))
                  EXCEPT !.gen = req.gen + 1]
    /\ UNCHANGED <<lessonPdf, indexFile, chunkFile, runs, overlap>>

\* The Response leaves the view; the next request can come.
Reply ==
    /\ req.pc = "done"
    /\ req' = IdleReq
    /\ UNCHANGED <<lessonPdf, indexFile, chunkFile, runs, overlap>>

\* --------------------------------------------- access to LessonPDFQnA

\* User.role: one value per user; ROLE_CHOICES, or the empty string of a
\* user created without a role.
Roles == {"admin", "teacher", "student", ""}

\* request.user: the anonymous user, or a User with its role.
Anonymous == [authenticated |-> FALSE, role |-> ""]
Users == {Anonymous} \cup {[authenticated |-> TRUE, role |-> ro] : ro \in Roles}

\* rest_framework.permissions.IsAuthenticated and the two role permissions.
IsAuthenticated(u) == u.authenticated
IsTeacherUser(u) == u.authenticated /\ u.role = "teacher"
IsStudentUser(u) == u.authenticated /\ u.role = "student"

\* The permission class that refuses the user, in the order of
\* permission_classes: the first whose has_permission is false, or "none".
RefusedBySomeRole(u) ==
    IF ~IsAuthenticated(u) THEN "IsAuthenticated"
    ELSE IF ~(IsTeacherUser(u) \/ IsStudentUser(u)) THEN "IsTeacherUser"
    ELSE "none"

\* permission_classes = [IsAuthenticated, IsTeacherUser, IsStudentUser]:
\* check_permissions asks each class in turn and refuses at the first that
\* says no.
RefusedBy(u) ==
    IF ~IsAuthenticated(u) THEN "IsAuthenticated"
    ELSE IF ~IsTeacherUser(u) THEN "IsTeacherUser"
    ELSE IF ~IsStudentUser(u) THEN "IsStudentUser"
    ELSE "none"

\* The view is dispatched: a refused request ends with 403, or for an
\* unauthenticated user with 401 or 403 as the authentication scheme has it;
\* a permitted one enters post.
Dispatch(u, l, q) ==
    IF RefusedBy(u) = "none"
    THEN PostRequest(l, q)
    ELSE /\ req.pc = "idle"
         /\ \E st \in (IF IsAuthenticated(u) THEN {403} ELSE {401, 403}) :
               req' = Respond(st, RefusedBy(u))
         /\ UNCHANGED <<lessonPdf, indexFile, chunkFile, runs, overlap>>

\* ------------------------------------------------------------ specification

PdfValues == {NoPdf} \cup Docs

\* Lesson saves and deletions, and the steps of the indexing threads.
NextIndexing ==
    \/ \E l \in Lessons, pdf \in PdfValues : CreateLesson(l, pdf)
    \/ \E l \in Lessons, pdf \in PdfValues : UpdateLesson(l, pdf)
    \/ \E l \in Lessons : DeleteLesson(l)
    \/ \E r \in Runs : Lookup(r)
    \/ \E r \in Runs : ProcessPdf(r)
    \/ \E r \in Runs : OpenIndex(r)
    \/ \E r \in Runs : WriteIndex(r)
    \/ \E r \in Runs : OpenChunks(r)
    \/ \E r \in Runs : WriteChunks(r)

\* The steps of a question-answering request.
NextRequest ==
    \/ \E l \in Lessons, q \in Questions : PostRequest(l, q)
    \/ SearchExists
    \/ ReadIndex
    \/ ReadChunks
    \/ Search
    \/ Generate
    \/ Reply

Next == NextIndexing \/ NextRequest

\* The whole system: indexing threads and requests interleaved.
Spec == Init /\ [][Next]_vars

\* The indexing side alone: no request is ever made.
SpecIndexing == Init /\ [][NextIndexing]_vars

\* Two lessons side by side: both rows exist without a PDF and nothing is
\* indexed yet.  PDFs are then uploaded to either lesson, the threads index
\* them and questions are asked about either lesson.
InitTwoLessons ==
    /\ lessonPdf = [l \in Lessons |-> NoPdf]
    /\ indexFile = [l \in Lessons |-> NoFile]
    /\ chunkFile = [l \in Lessons |-> NoFile]
    /\ runs = [r \in Runs |-> IdleRun]
    /\ req = IdleReq
    /\ overlap = {}

\* The PDF uploaded to each lesson: "A" to lesson 1, "B" to lesson 2.
PdfOf(l) == IF l = 1 THEN "A" ELSE "B"

NextTwoLessons ==
    \/ \E l \in Lessons : UpdateLesson(l, PdfOf(l))
    \/ \E r \in Runs : Lookup(r)
    \/ \E r \in Runs : ProcessPdf(r)
    \/ \E r \in Runs : OpenIndex(r)
    \/ \E r \in Runs : WriteIndex(r)
    \/ \E r \in Runs : OpenChunks(r)
    \/ \E r \in Runs : WriteChunks(r)
    \/ \E l \in Lessons : PostRequest(l, "q1")
    \/ SearchExists
    \/ ReadIndex
    \/ ReadChunks
    \/ Search
    \/ Generate
    \/ Reply

SpecTwoLessons == InitTwoLessons /\ [][NextTwoLessons]_vars

\* Questions about a lesson whose PDF is uploaded, replaced ("A", "B") or
\* taken away while its threads index it.
NextAnswering ==
    \/ \E l \in Lessons, pdf \in {NoPdf, "A", "B"} : CreateLesson(l, pdf)
    \/ \E l \in Lessons, pdf \in {NoPdf, "A", "B"} : UpdateLesson(l, pdf)
    \/ \E r \in Runs : Lookup(r)
    \/ \E r \in Runs : ProcessPdf(r)
    \/ \E r \in Runs : OpenIndex(r)
    \/ \E r \in Runs : WriteIndex(r)
    \/ \E r \in Runs : OpenChunks(r)
    \/ \E r \in Runs : WriteChunks(r)
    \/ NextRequest

SpecAnswering == Init /\ [][NextAnswering]_vars

\* The next step of thread r, whichever it is.
create_and_save_index(r) ==
    \/ Lookup(r)
    \/ ProcessPdf(r)
    \/ OpenIndex(r)
    \/ WriteIndex(r)
    \/ OpenChunks(r)
    \/ WriteChunks(r)

\* Fair scheduling of the threads: a started thread (threading.Thread.start)
\* that can take its next step is not held back forever.  Saves and
\* deletions come from outside and are under no obligation to happen.
SpecFair == SpecIndexing /\ \A r \in Runs : WF_vars(create_and_save_index(r))

\* The endpoint as HTTP clients see it: every request goes through the
\* permission check before post, while lessons are saved and indexed.
NextAccess ==
    \/ NextIndexing
    \/ \E u \in Users, l \in Lessons, q \in Questions : Dispatch(u, l, q)
    \/ Reply

SpecAccess == Init /\ [][NextAccess]_vars

\* ------------------------------------------------------------------ claims

\* The threads that were ever started, and the finished ones.
Started == {r \in Runs : runs[r].pc # "idle"}
Running == {r \in Runs : runs[r].pc \notin {"idle", "done"}}

\* search_index has both the index and the chunk texts in hand.
Loaded == req.pc = "search"

\* The Search step of the request: search_index leaves its last statements.
SearchStep == req.pc = "search" /\ req'.pc # "search"

\* C1 -- first-time indexing race: while the first indexing thread of a lesson
\* is at work (no other thread was ever started), a search_index call for that
\* lesson never raises, and what it loads is the index and the chunk texts
\* written by that thread.
C1_FirstIndexRace ==
    \A r \in Runs :
        (Started = {r} /\ r \in Running)
        => /\ req.search # "raised"
           /\ Loaded => req.idx.run = r /\ req.chunks.run = r

\* C2 -- re-index race: as long as no two threads of the lesson ever ran at
\* once, the index and the chunk texts that one search_index call has loaded
\* were written by the same thread (both old or both new).
C2_ReindexRace ==
    (Loaded /\ req.lesson \notin overlap) => req.idx.run = req.chunks.run

\* C3 -- persisted-index invariant: for every lesson, if lesson_<id>.index
\* exists then lesson_<id>_chunks.pkl exists, and a completely written index
\* goes with completely written chunk texts of the same count.
C3_PersistedPair ==
    \A l \in Lessons :
        indexFile[l].exists
        => /\ chunkFile[l].exists
           /\ indexFile[l].whole
                => /\ chunkFile[l].whole
                   /\ Len(chunkFile[l].data) = Len(indexFile[l].data)

\* C4 -- racing saves: when two threads of the same lesson have both finished
\* successfully and left two readable files, the index file and the chunk
\* file were written by the same one of them.
C4_RacingSaves ==
    \A r1, r2 \in Runs :
        (/\ r1 # r2
         /\ runs[r1].lesson = runs[r2].lesson
         /\ runs[r1].outcome = "ok" /\ runs[r2].outcome = "ok"
         /\ Running = {}
         /\ Readable(indexFile[runs[r1].lesson])
         /\ Readable(chunkFile[runs[r1].lesson]))
        => indexFile[runs[r1].lesson].run = chunkFile[runs[r1].lesson].run

\* C5 -- not ready yet: when search_index returned the sentinel for a real
\* question, the Response of the view is a result of its own: not a server
\* error and not a generated answer.
C5_NotReadyDistinct ==
    [][(/\ req.pc = "generate" /\ req'.pc = "done"
        /\ req.search = "sentinel" /\ req.question = "q1")
       => /\ req'.resp.status < 500
          /\ req'.resp.kind # "answer"]_vars

\* C6 -- fewer vectors than k: on a consistent index of n < k vectors,
\* search_index returns the n stored chunk texts, each once.
C6_FewerThanK ==
    [][(/\ SearchStep
        /\ Len(req.idx.data) < DefaultK
        /\ req.idx.data = EncodeAll(req.chunks.data))
       => /\ req'.search = "context"
          /\ Len(req'.ctx) = Len(req.idx.data)
          /\ \A i \in 1..Len(req.chunks.data) :
                Cardinality({p \in 1..Len(req'.ctx) :
                                req'.ctx[p] = req.chunks.data[i]}) = 1]_vars

\* C7 -- never indexed: when lesson_<id>.index is not there at the check,
\* search_index returns the sentinel as its value: no exception, no chunk
\* file read, no question encoded.
C7_SentinelWhenNoIndex ==
    [][(/\ req.pc = "exists" /\ req'.pc # "exists"
        /\ ~indexFile[req.lesson].exists)
       => /\ req'.pc = "generate"
          /\ req'.search = "sentinel"
          /\ req'.ctx = Sentinel
          /\ req'.idx = NoFile /\ req'.chunks = NoFile
          /\ ~req'.encoded]_vars

C7_Witness ==
    /\ req.pc = "generate"
    /\ req.search = "sentinel"
    /\ req.question = "q1"
    /\ ~indexFile[req.lesson].exists

\* C8 -- corruption is surfaced: when no thread is at work and the persisted
\* index and chunk texts, which search_index has loaded, differ in count,
\* search_index raises instead of returning a context.
C8_CorruptionSurfaced ==
    [][(/\ SearchStep
        /\ Running = {}
        /\ req.idx = indexFile[req.lesson]
        /\ req.chunks = chunkFile[req.lesson]
        /\ Len(req.idx.data) # Len(req.chunks.data))
       => req'.search = "raised"]_vars

\* C9 -- indexing failures are contained: whatever fails inside
\* create_and_save_index, no exception leaves the function, and a finished
\* thread has returned, skipped or logged.
C9_FailuresContained ==
    \A r \in Runs :
        /\ runs[r].outcome # "escaped"
        /\ runs[r].pc = "done"
             => runs[r].outcome \in {"ok", "no_pdf", "blank", "not_found", "error"}

C9_Witness ==
    \E r1, r2 \in Runs :
        /\ runs[r1].outcome = "error"
        /\ runs[r2].outcome = "not_found"

\* C10 -- short-circuit is a no-op: a thread that is looking up its lesson or
\* reading its PDF changes no file, and a thread ends with "not found", "no
\* PDF" or "blank text" only from there.
ShortCircuits == {"not_found", "no_pdf", "blank"}

C10_ShortCircuitNoOp ==
    [][\A r \in Runs :
         /\ (runs[r].pc \in {"lookup", "process"} /\ runs'[r] # runs[r])
              => indexFile' = indexFile /\ chunkFile' = chunkFile
         /\ (runs'[r].outcome \in ShortCircuits /\ runs[r].pc # "done")
              => /\ runs[r].pc \in {"lookup", "process"}
                 /\ indexFile' = indexFile /\ chunkFile' = chunkFile]_vars

C10_Witness ==
    \E r \in Runs :
        /\ runs[r].outcome = "blank"
        /\ Readable(indexFile[runs[r].lesson])
        /\ Readable(chunkFile[runs[r].lesson])
        /\ indexFile[runs[r].lesson].run # r

\* C11 -- cross-lesson isolation: a file of lesson l is only ever written by
\* a thread that indexes l; as long as no two threads of l itself ran at
\* once, a file of l is incomplete only while its writer is at work or after
\* its writer failed, and a complete index holds the vectors of l's own PDF,
\* whatever the threads of the other lesson do; and what search_index has
\* loaded for a lesson was written by a thread of that lesson.
WriterOf(file) == runs[file.run]

\* File of lesson l is l's own: written by a thread of l, and, unless two
\* threads of l overlapped, incomplete only through its own writer.
OwnFile(l, file) ==
    file.exists
    => /\ WriterOf(file).lesson = l
       /\ (l \notin overlap /\ ~file.whole)
            => \/ WriterOf(file).pc # "done"
               \/ WriterOf(file).outcome = "error"

C11_CrossLessonIsolation ==
    /\ \A l \in Lessons : OwnFile(l, indexFile[l]) /\ OwnFile(l, chunkFile[l])
    /\ \A l \in Lessons :
         (l \notin overlap /\ Readable(indexFile[l]))
         => indexFile[l].data = EncodeAll(chunk_text(DocText(PdfOf(l))))
    /\ req.idx.exists => WriterOf(req.idx).lesson = req.lesson
    /\ req.chunks.exists => WriterOf(req.chunks).lesson = req.lesson

\* Both lessons are being indexed at once, and lesson 2 is searched with its
\* own complete files while the thread of lesson 1 is in the middle of its
\* write.
C11_Witness ==
    /\ req.pc = "search" /\ req.lesson = 2
    /\ \E r \in Runs : runs[r].lesson = 1 /\ runs[r].pc = "write_index"
    /\ \E r \in Runs : runs[r].lesson = 2 /\ runs[r].outcome = "ok"
    /\ overlap = {}

\* C12 -- save does not wait for indexing: whatever the threads of a lesson
\* are doing, the next save of the lesson goes through (the handler starts a
\* thread and returns), as long as the model has a thread left to start; and
\* a thread that was just started has done nothing yet: nothing is persisted
\* for the lesson by the time the save returns.
C12_SaveDoesNotWait ==
    /\ \A l \in Lessons, pdf \in PdfValues :
         (lessonPdf[l] \notin {NoLesson, Deleted} /\ IdleRuns # {})
         => ENABLED UpdateLesson(l, pdf)
    /\ \A r \in Runs :
         (runs[r].pc = "lookup" /\ Started = {r})
         => ~indexFile[runs[r].lesson].exists /\ ~chunkFile[runs[r].lesson].exists

\* The first save of lesson 1 has returned, its thread is still in the
\* middle of the write with no complete index persisted, and a second save
\* of the lesson has gone through meanwhile.
C12_Witness ==
    \E r1, r2 \in Runs :
        /\ runs[r1].lesson = 1 /\ runs[r1].pc = "write_index"
        /\ runs[r2].lesson = 1 /\ runs[r2].pc = "lookup"
        /\ ~Readable(indexFile[1])

\* A save of lesson l with pdf_file pdf: LessonList.post or LessonDescription.put.
Save(l, pdf) == CreateLesson(l, pdf) \/ UpdateLesson(l, pdf)

\* The threads that this step starts.
StartedNow == {r \in Runs : runs[r].pc = "idle" /\ runs'[r].pc # "idle"}

\* C13 -- trigger condition: a save of a lesson with a PDF starts exactly one
\* thread, with the id of the saved lesson, and touches no other thread; a
\* save without a PDF starts none; and a thread is only ever started by a
\* save, with a PDF, of the lesson it is to index.
C13_TriggerCondition ==
    [][/\ \A l \in Lessons, pdf \in PdfValues :
            Save(l, pdf)
            => IF pdf # NoPdf
               THEN /\ Cardinality(StartedNow) = 1
                    /\ \A r \in StartedNow :
                          runs'[r].lesson = l /\ runs'[r].pc = "lookup"
                    /\ \A r \in Runs \ StartedNow : runs'[r] = runs[r]
               ELSE runs' = runs
       /\ \A r \in StartedNow :
            \E pdf \in Docs : Save(runs'[r].lesson, pdf)]_vars

\* Lesson 1 was saved with a PDF, which started the first thread, and saved
\* again without one, which started none.
C13_Witness ==
    /\ lessonPdf[1] = NoPdf
    /\ runs[1].lesson = 1
    /\ \A r \in Runs \ {1} : runs[r].pc = "idle"

\* C14 -- no PDF: a request about an existing lesson without pdf_file ends at
\* once with the "No PDF uploaded" error, whatever the question and whatever
\* is on disk for the lesson; search_index is not called, no question is
\* encoded and query_generative_model is not called.
C14_NoPdfError ==
    [][(req.pc = "idle" /\ req'.pc # "idle")
       => \A l \in Lessons, q \in Questions :
            (lessonPdf[l] = NoPdf /\ PostRequest(l, q))
            => /\ req'.pc = "done"
               /\ req'.resp = Response(400, "no_pdf")
               /\ req'.search = "none" /\ ~req'.encoded
               /\ req'.gen = 0]_vars

\* The request was refused for the missing PDF while the index and the chunk
\* texts of an earlier PDF of the lesson are still on disk.
C14_Witness ==
    /\ req.pc = "done" /\ req.resp = Response(400, "no_pdf")
    /\ lessonPdf[1] = NoPdf
    /\ Readable(indexFile[1]) /\ Readable(chunkFile[1])

\* A blank question: absent, empty, or whitespace only.
Blank(q) == q \in {NoQuestion, "", " "}

\* C15 -- blank question: a request with a blank question about a lesson
\* with a PDF ends at once with the "No question provided" error;
\* search_index is not called and query_generative_model is not called.
C15_BlankQuestionError ==
    [][(req.pc = "idle" /\ req'.pc # "idle")
       => \A l \in Lessons, q \in Questions :
            (Blank(q) /\ lessonPdf[l] \in Docs /\ PostRequest(l, q))
            => /\ req'.pc = "done"
               /\ req'.resp = Response(400, "no_question")
               /\ req'.search = "none" /\ ~req'.encoded
               /\ req'.gen = 0]_vars

\* C16 -- generation failure: when query_generative_model raised, the
\* Response is a 500 that carries the failure of the model call, and the
\* function was called exactly once in the request; when search_index
\* raised, the Response is a 500 for the search and the function was not
\* called; and it is never called more than once in a request.
C16_GenerationFailure ==
    /\ req.gen <= 1
    /\ req.pc = "generate" => req.gen = 0
    /\ req.resp.kind \in {"generation_failed", "answer"} => req.gen = 1
    /\ req.resp.kind = "generation_failed" => req.resp.status = 500
    /\ req.search = "raised"
         => /\ req.gen = 0
            /\ req.pc = "done"
            /\ req.resp = Response(500, "search_failed")

\* The model call failed on a context that search_index had returned.
C16_Witness ==
    /\ req.pc = "done"
    /\ req.search = "context"
    /\ req.resp = Response(500, "generation_failed")
    /\ req.gen = 1
\* C17 -- save/load round trip: when a thread finishes its writes
\* successfully and no two threads of the lesson ever ran at once, the two
\* files can be loaded, they hold as many vectors and chunk texts as the
\* thread produced, and a search with stored vector i as the query has
\* chunk i of the thread as its first result.
C17_RoundTrip ==
    [][\A r \in Runs :
         (/\ runs[r].pc = "write_chunks" /\ runs'[r].outcome = "ok"
          /\ runs[r].lesson \notin overlap)
         => LET idx == indexFile'[runs[r].lesson]
                chunks == chunkFile'[runs[r].lesson]
            IN /\ Readable(idx) /\ Readable(chunks)
               /\ Len(idx.data) = Len(Embeddings(r))
               /\ Len(chunks.data) = Len(TextChunks(r))
               /\ \A i \in 1..Len(idx.data) :
                     LET first == IndexSearch(idx.data, idx.data[i], DefaultK)[1]
                     IN /\ first = i - 1
                        /\ PyGet(chunks.data, first) = TextChunks(r)[i]]_vars

\* A thread has indexed the four chunks of PDF "B" on its own and returned.
C17_Witness ==
    \E r \in Runs :
        /\ runs[r].outcome = "ok"
        /\ runs[r].lesson \notin overlap
        /\ indexFile[runs[r].lesson] = Written(r, EncodeAll(chunk_text(DocText("B"))))
        /\ chunkFile[runs[r].lesson] = Written(r, chunk_text(DocText("B")))
\* C18 -- retrieval result: on a consistent index of n >= k vectors,
\* search_index returns exactly k chunk texts, taken from k different
\* stored positions, in ascending order of squared Euclidean distance to the
\* question vector, equal distances in ascending stored position; every
\* chunk left out is farther than the last one returned, or as far and
\* stored later; and nothing is removed from the k texts.
C18_RetrievalResult ==
    [][(/\ SearchStep
        /\ Len(req.idx.data) >= DefaultK
        /\ req.idx.data = EncodeAll(req.chunks.data))
       => LET vecs == req.idx.data
              texts == req.chunks.data
              D(i) == Dist2(vecs[i], Encode(req.question))
              Before(i, j) == D(i) < D(j) \/ (D(i) = D(j) /\ i < j)
          IN /\ req'.search = "context"
             /\ Len(req'.ctx) = DefaultK
             /\ \E sel \in [1..DefaultK -> 1..Len(vecs)] :
                  /\ \A p \in 1..DefaultK : req'.ctx[p] = texts[sel[p]]
                  /\ \A p, p2 \in 1..DefaultK :
                        p < p2 => Before(sel[p], sel[p2])
                  /\ \A j \in 1..Len(vecs) :
                        (\A p \in 1..DefaultK : sel[p] # j)
                        => Before(sel[DefaultK], j)]_vars

\* search_index has returned three of the four chunks of PDF "B" for a
\* question as far from the first chunk as from the second.
C18_Witness ==
    /\ req.pc = "generate"
    /\ req.search = "context"
    /\ req.question = "q1"
    /\ req.ctx = <<"b1", "b2", "b3">>
\* C19 -- indexing always ends: under fair scheduling every thread that was
\* started reaches its end, whatever saves, deletions and other threads do
\* meanwhile; a thread that has ended has returned, skipped or
\* logged, and a thread that returned after its writes left both files of
\* its lesson on disk.
Ended(r) ==
    /\ runs[r].pc = "done"
    /\ runs[r].outcome \in {"ok", "no_pdf", "blank", "not_found", "error"}
    /\ runs[r].outcome = "ok"
         => /\ indexFile[runs[r].lesson].exists
            /\ chunkFile[runs[r].lesson].exists

C19_IndexingEnds ==
    \A r \in Runs : (runs[r].pc # "idle") ~> Ended(r)

\* Every thread has ended: one after writing both files, one with a logged
\* failure.
C19_Witness ==
    /\ \A r \in Runs : runs[r].pc = "done"
    /\ \E r \in Runs : runs[r].outcome = "ok"
    /\ \E r \in Runs : runs[r].outcome = "error"
\* C20 -- querying is read-only: no step of a request (post, search_index,
\* the model call, the Response) creates, changes or removes an index file
\* or a chunk file of any lesson, however the request ends.
C20_QueryReadOnly ==
    [][req' # req => indexFile' = indexFile /\ chunkFile' = chunkFile]_vars

\* search_index has raised on an index file that a failed thread left
\* incomplete, and the file is still there as it was.
C20_Witness ==
    /\ req.pc = "done"
    /\ req.search = "raised"
    /\ Running = {}
    /\ \E l \in Lessons : indexFile[l].exists /\ ~indexFile[l].whole
\* The positions of the text blocks of a PDF text, in document order.
BlockPositions(text) == {i \in 1..Len(text) : IsBlock(text[i])}

\* C21 -- index alignment: when a thread finishes its writes successfully
\* and no two threads of the lesson ever ran at once, the persisted chunk
\* list holds the text blocks of the PDF the thread read, each once and in
\* document order, and the i-th vector of the persisted index is the
\* embedding of the i-th persisted chunk text.
C21_IndexAlignment ==
    [][\A r \in Runs :
         (/\ runs[r].pc = "write_chunks" /\ runs'[r].outcome = "ok"
          /\ runs[r].lesson \notin overlap)
         => LET vecs == indexFile'[runs[r].lesson].data
                texts == chunkFile'[runs[r].lesson].data
                pdf == DocText(runs[r].doc)
            IN /\ Len(texts) = Cardinality(BlockPositions(pdf))
               /\ \A i \in 1..Len(texts) :
                     \E pos \in BlockPositions(pdf) :
                        /\ texts[i] = pdf[pos]
                        /\ Cardinality({b \in BlockPositions(pdf) : b < pos}) = i - 1
               /\ Len(vecs) = Len(texts)
               /\ \A i \in 1..Len(vecs) : vecs[i] = Encode(texts[i])]_vars

\* A thread has indexed PDF "A", whose two blocks of text are separated by
\* whitespace, on its own and returned.
C21_Witness ==
    \E r \in Runs :
        /\ runs[r].outcome = "ok"
        /\ runs[r].lesson \notin overlap
        /\ indexFile[runs[r].lesson] = Written(r, <<Encode("a1"), Encode("a2")>>)
        /\ chunkFile[runs[r].lesson] = Written(r, <<"a1", "a2">>)
\* The threads that were started for lesson l.
ThreadsOf(l) == {r \in Runs : runs[r].pc # "idle" /\ runs[r].lesson = l}

C23_IndexedIsStable ==
    [][/\ \A l \in Lessons : indexFile[l].exists => indexFile'[l].exists
       /\ (req.pc = "exists" /\ req'.search = "sentinel")
            => ~indexFile[req.lesson].exists]_vars

\* The PDF of lesson 1 was indexed and then replaced by an unreadable one;
\* the thread of that save failed, and a question about the lesson is past
\* the existence check of search_index.
C23_Witness ==
    /\ lessonPdf[1] = "bad"
    /\ \E r \in Runs : runs[r].lesson = 1 /\ runs[r].outcome = "error"
    /\ indexFile[1].exists
    /\ req.lesson = 1 /\ req.pc = "read_index"
\* C24 -- access to the question-answering endpoint: a user gets past the
\* permission check only with a role that is 'teacher' and 'student' at
\* once, which no user has; so every request ends at the check, refused by
\* one of the three classes, and the body of post, search_index and the
\* model call are never reached.
C24_NoUserPermitted ==
    /\ \A u \in Users :
         /\ RefusedBy(u) = "none" => u.role = "teacher" /\ u.role = "student"
         /\ RefusedBy(u) # "none"
    /\ req.pc \in {"idle", "done"}
    /\ req.search = "none" /\ ~req.encoded /\ req.gen = 0
    /\ req.pc = "done"
         => /\ req.resp.kind \in {"IsAuthenticated", "IsTeacherUser", "IsStudentUser"}
            /\ req.resp.status \in {401, 403}

\* A teacher was refused, by IsStudentUser, while lesson 1 has a PDF that
\* is indexed and could be searched.
C24_Witness ==
    /\ req.pc = "done"
    /\ req.resp = Response(403, "IsStudentUser")
    /\ lessonPdf[1] \in {"A", "B"}
    /\ Readable(indexFile[1]) /\ Readable(chunkFile[1])
====
